---- MODULE Spec2Model ----
(***************************************************************************)
(* Model of Server.js: the POST /generate-certificates pipeline (upload,   *)
(* validation, certificate generation, archive building, download and      *)
(* cleanup) over the shared working paths uploads/, certificates/ and      *)
(* certificates.zip, and the participant-name normalization it applies.    *)
(*                                                                         *)
(* Strings are sequences of one-character strings, so that trim, split,    *)
(* charAt, slice and join are computed as the JavaScript computes them.    *)
(***************************************************************************)
EXTENDS Integers, Sequences, FiniteSets, TLC

(***************************************************************************)
(* Bounds.                                                                 *)
(***************************************************************************)
\* longest participant line explored for the normalization expression
MaxLineLen == 4
\* longest participants file (in lines) a request uploads
MaxLines == 1

(***************************************************************************)
(* Characters: a lower-case letter, its upper-case form, the space the     *)
(* code splits on and a second white-space character (tab) that trim()     *)
(* removes but split(' ') does not split on.                               *)
(***************************************************************************)
Chars == {"a", "A", " ", "\t"}

\* String.prototype.trim strips white space, not only ' '
IsWhite(c) == c \in {" ", "\t"}

\* String.prototype.toUpperCase on one character
ToUpperCase(c) == IF c = "a" THEN "A" ELSE c

RECURSIVE TrimStart(_)
TrimStart(s) ==
  IF s = <<>> THEN <<>>
  ELSE IF IsWhite(Head(s)) THEN TrimStart(Tail(s)) ELSE s

RECURSIVE TrimEnd(_)
TrimEnd(s) ==
  IF s = <<>> THEN <<>>
  ELSE IF IsWhite(s[Len(s)]) THEN TrimEnd(SubSeq(s, 1, Len(s) - 1)) ELSE s

\* name.trim()
Trim(s) == TrimEnd(TrimStart(s))

\* .split(' '): cut at every single space; adjacent spaces give empty words
RECURSIVE Split(_)
Split(s) ==
  IF \E i \in 1..Len(s) : s[i] = " "
  THEN LET i == CHOOSE j \in 1..Len(s) :
                  s[j] = " " /\ \A k \in 1..(j - 1) : s[k] # " "
       IN  <<SubSeq(s, 1, i - 1)>> \o Split(SubSeq(s, i + 1, Len(s)))
  ELSE <<s>>

\* word.charAt(0).toUpperCase() + word.slice(0): the first character doubled
CapitalizeNoSlice(word) ==
  IF word = <<>> THEN <<>> ELSE <<ToUpperCase(word[1])>> \o word

\* word => word.charAt(0).toUpperCase() + word.slice(1)
Capitalize(word) ==
  IF word = <<>> THEN <<>> ELSE <<ToUpperCase(word[1])>> \o Tail(word)

\* .join(' ')
RECURSIVE Join(_)
Join(words) ==
  IF words = <<>> THEN <<>>
  ELSE IF Len(words) = 1 THEN words[1]
  ELSE words[1] \o <<" ">> \o Join(Tail(words))

\* the words of a split without the empty ones (what collapsing would need)
RECURSIVE DropEmpty(_)
DropEmpty(words) ==
  IF words = <<>> THEN <<>>
  ELSE IF Head(words) = <<>> THEN DropEmpty(Tail(words))
  ELSE <<Head(words)>> \o DropEmpty(Tail(words))

\* normalization that drops the empty words of a run of spaces
NormalizeCollapsing(s) ==
  LET words == DropEmpty(Split(Trim(s)))
  IN  Join([i \in 1..Len(words) |-> Capitalize(words[i])])

\* name.trim().split(' ').map(word => ...).join(' ')
Normalize(s) ==
  LET words == Split(Trim(s))
  IN  Join([i \in 1..Len(words) |-> Capitalize(words[i])])

\* `${name}.png`
CertName(name) == name \o <<".png">>

\* all strings over Chars of length at most n
StringsUpTo(n) == UNION {[1..k -> Chars] : k \in 0..n}

(***************************************************************************)
(* The request pipeline.                                                   *)
(***************************************************************************)
\* request slots; a slot is reused by a later request once its request ended
Reqs == {1, 2}

\* lines a participants file is made of (the pieces split('\n') returns):
\* the empty line, a line of one space, and a name
FileLines == {<<>>, <<" ">>, <<"a">>}

\* participants files: split('\n') returns at least one line
ParticipantFiles == UNION {[1..k -> FileLines] : k \in 1..MaxLines}

MsgBothFiles == "Please upload both the template and participants files."
MsgNoTemplate == "Template file does not exist."
MsgNoParticipants == "Participants file does not exist."
MsgEmptyList == "The participants list is empty."
MsgGenerate == "An error occurred while generating certificates."
MsgDownload == "An error occurred while downloading the ZIP file."

VARIABLES
  variant,        \* which of the two copies of the handler is deployed (1, 2)
  serverUp,       \* the node process is running
  pc,             \* per request: position in the handler
  req,            \* per request: what was uploaded (while it is in flight)
  res,            \* per request: the response as sent so far
  uploads,        \* files in uploads/ : [owner, field]
  certDirExists,  \* certificates/ exists
  certFiles,      \* names of the files in certificates/
  zipExists,      \* certificates.zip exists
  zipEntries,     \* names of the entries of certificates.zip
  delivered,      \* per request: entries of the archive being streamed
  hist,           \* per request: what the handler did (history)
  nPc, nIn, nIn2, nOut, nOut2, nFiles   \* normalization harness

serverVars == <<variant, serverUp, pc, req, res, uploads, certDirExists,
                certFiles, zipExists, zipEntries, delivered, hist>>
normVars == <<nPc, nIn, nIn2, nOut, nOut2, nFiles>>
vars == <<serverVars, normVars>>

NoResponse == [status |-> 0, json |-> FALSE, msg |-> "", headersSent |-> FALSE]
NoRequest == [hasTemplate |-> FALSE, hasParticipants |-> FALSE, lines |-> <<>>]

\* what a request can upload: either field may be missing; the participants
\* file, when both are there, is any of ParticipantFiles (the lines of a file
\* the handler never reads are left out)
Uploads ==
  {[hasTemplate |-> t, hasParticipants |-> FALSE, lines |-> <<>>] :
      t \in BOOLEAN}
  \cup {[hasTemplate |-> FALSE, hasParticipants |-> TRUE, lines |-> <<>>]}
  \cup {[hasTemplate |-> TRUE, hasParticipants |-> TRUE, lines |-> l] :
          l \in ParticipantFiles}
\* did: steps performed; failed: the step that threw; overlapped: another
\* request was in flight during this one; cleanStart: the working paths were
\* absent when it began; torn: certificates.zip was rewritten while streamed
NoHistory == [did |-> {}, failed |-> "none", overlapped |-> FALSE,
              cleanStart |-> FALSE, lateSend |-> FALSE, escaped |-> FALSE,
              callbackRan |-> FALSE, cleanupThrew |-> FALSE, torn |-> FALSE]

InFlight(r) == pc[r] \in {"uploaded", "loading", "sending", "streaming"}

\* res.status(code).json({error: msg})
Json(code, m) == [status |-> code, json |-> TRUE, msg |-> m, headersSent |-> TRUE]
\* res.status(code).send(msg)
Send(code, m) == [status |-> code, json |-> FALSE, msg |-> m, headersSent |-> TRUE]

\* what the participants file yields when the lines are not filtered
NoFilter(lines) == lines

\* .filter(Boolean) on the lines of the participants file
RECURSIVE FilterBoolean(_)
FilterBoolean(lines) ==
  IF lines = <<>> THEN <<>>
  ELSE IF Head(lines) = <<>> THEN FilterBoolean(Tail(lines))
  ELSE <<Head(lines)>> \o FilterBoolean(Tail(lines))

\* fs.writeFileSync(certPath, buffer): creates or overwrites certificates/<name>.png
WriteCert(files, name) == files \cup {CertName(name)}

\* the generation loop, stopped after the first n participants
RECURSIVE Generate(_, _, _)
Generate(files, names, n) ==
  IF n = 0 THEN files
  ELSE WriteCert(Generate(files, names, n - 1), Normalize(names[n]))

TemplateFile(r) == [owner |-> r, field |-> "template"]
ParticipantsFile(r) == [owner |-> r, field |-> "participants"]

\* files in uploads/ of the request that used slot r before: files of no
\* live request from now on (owner 0)
Orphan(files, r) ==
  {IF f.owner = r THEN [owner |-> 0, field |-> "old"] ELSE f : f \in files}

(***************************************************************************)
(* State after construction: the server listens, no request was received   *)
(* and the working paths do not exist yet.                                 *)
(***************************************************************************)
ServerInit ==
  /\ serverUp = TRUE
  /\ pc = [r \in Reqs |-> "idle"]
  /\ req = [r \in Reqs |-> NoRequest]
  /\ res = [r \in Reqs |-> NoResponse]
  /\ uploads = {}
  /\ certDirExists = FALSE
  /\ certFiles = {}
  /\ zipExists = FALSE
  /\ zipEntries = {}
  /\ delivered = [r \in Reqs |-> {}]
  /\ hist = [r \in Reqs |-> NoHistory]

NormIdle ==
  /\ nPc = "off"
  /\ nIn = <<>>
  /\ nIn2 = <<>>
  /\ nOut = <<>>
  /\ nOut2 = <<>>
  /\ nFiles = {}

Init ==
  /\ variant \in {1, 2}
  /\ ServerInit
  /\ NormIdle

(***************************************************************************)
(* upload.fields(...): multer stores each uploaded field as a file in      *)
(* uploads/ and then calls the handler.                                    *)
(***************************************************************************)
BeginRequest(r, up) ==
  /\ serverUp
  /\ ~InFlight(r)
  /\ LET old == Orphan(uploads, r)
         overlap == \E o \in Reqs \ {r} : InFlight(o)
     IN  /\ uploads' = old \cup (IF up.hasTemplate THEN {TemplateFile(r)} ELSE {})
                           \cup (IF up.hasParticipants
                                 THEN {ParticipantsFile(r)} ELSE {})
         /\ hist' = [o \in Reqs |->
                      IF o = r
                      THEN [NoHistory EXCEPT
                              !.overlapped = overlap,
                              !.cleanStart = /\ old = {}
                                             /\ ~certDirExists
                                             /\ ~zipExists]
                      ELSE IF InFlight(o)
                      THEN [hist[o] EXCEPT !.overlapped = TRUE]
                      ELSE hist[o]]
  /\ req' = [req EXCEPT ![r] = up]
  /\ res' = [res EXCEPT ![r] = NoResponse]
  /\ delivered' = [delivered EXCEPT ![r] = {}]
  /\ pc' = [pc EXCEPT ![r] = "uploaded"]
  /\ UNCHANGED <<variant, serverUp, certDirExists, certFiles, zipExists,
                 zipEntries, normVars>>

\* the history kept of a request that ended
Ended(h) == [h EXCEPT !.overlapped = FALSE, !.cleanStart = FALSE,
                      !.torn = FALSE]

\* the request ends: its req object and its stream are released
EndRequest(r, h) ==
  /\ pc' = [pc EXCEPT ![r] = "done"]
  /\ req' = [req EXCEPT ![r] = NoRequest]
  /\ delivered' = [delivered EXCEPT ![r] = {}]
  /\ hist' = [hist EXCEPT ![r] = Ended(h)]

\* return res.status(...).json(...) / .send(...)
Respond(r, response, h) ==
  /\ res' = [res EXCEPT ![r] = response]
  /\ EndRequest(r, h)

\* catch (error) that answers 400 JSON instead of 500 text
CatchBlockAs400(r, step, steps) ==
  Respond(r, Json(400, MsgGenerate),
          [hist[r] EXCEPT !.failed = step, !.did = @ \cup steps])

\* catch (error) { if (!res.headersSent) res.status(500).send(...) }
\* (nothing was sent before any statement of the try block that can throw)
\* `step` is the statement that threw, `steps` what the try block had done
CatchBlock(r, step, steps) ==
  Respond(r, Send(500, MsgGenerate),
          [hist[r] EXCEPT !.failed = step, !.did = @ \cup steps])

\* if (!req.files || !req.files.template) only: the participants field unchecked
FilesMissingTemplateOnly(r) == ~req[r].hasTemplate

\* if (!req.files || !req.files.template || !req.files.participants)
FilesMissing(r) == ~req[r].hasTemplate \/ ~req[r].hasParticipants

(***************************************************************************)
(* The handler from its entry to `await loadImage(templatePath)`.          *)
(***************************************************************************)
HandlerStart(r, fontsThrow) ==
  /\ serverUp
  /\ pc[r] = "uploaded"
  /\ IF FilesMissing(r)
     THEN /\ ~fontsThrow
          /\ Respond(r, Json(400, MsgBothFiles), hist[r])
     ELSE IF TemplateFile(r) \notin uploads
     THEN /\ ~fontsThrow
          /\ Respond(r, Json(400, MsgNoTemplate), hist[r])
     ELSE IF ParticipantsFile(r) \notin uploads
     THEN /\ ~fontsThrow
          /\ Respond(r, Json(400, MsgNoParticipants), hist[r])
     ELSE IF fontsThrow
     THEN \* registerFont throws
          /\ CatchBlock(r, "fonts", {"fonts"})
     ELSE /\ pc' = [pc EXCEPT ![r] = "loading"]
          /\ hist' = [hist EXCEPT ![r].did = @ \cup {"fonts", "loadImage"}]
          /\ UNCHANGED <<res, req, delivered>>
  /\ UNCHANGED <<variant, serverUp, uploads, certDirExists, certFiles,
                 zipExists, zipEntries, normVars>>

\* fs.readFileSync(participantsPath, 'utf-8').split('\n').filter(Boolean)
ParticipantNames(r) == FilterBoolean(req[r].lines)

GenerationStages == {"none", "draw", "write", "zip"}

\* the steps a generation that threw at `stage` had performed
StepsDone(written, stage) ==
  {"readParticipants", "mkdir", "draw"}
    \cup (IF written > 0 \/ stage \in {"write", "zip"} THEN {"write"} ELSE {})
    \cup (IF stage = "zip" THEN {"zip"} ELSE {})

\* the archive filled from certificates/ as it was before the generation loop
BuildArchiveBeforeLoop ==
  /\ zipExists' = TRUE
  /\ zipEntries' = certFiles

\* new AdmZip(); readdirSync(certificatesDir).forEach(addLocalFile);
\* zip.writeZip(zipPath): every file now in certificates/, over any older archive
BuildArchive ==
  /\ zipExists' = TRUE
  /\ zipEntries' = certFiles'

(***************************************************************************)
(* The handler from the completion of loadImage to its return: read the    *)
(* participants, generate the certificates, build the archive and call     *)
(* res.download.  All of it is synchronous.  `written` certificates are    *)
(* on disk when the step named by `stage` throws ("none": nothing throws). *)
(* imageOk tells whether loadImage resolved: it rejects when the template   *)
(* is not a readable image, and may reject when another request's cleanup  *)
(* removed the file from uploads/ while it was being loaded.               *)
(***************************************************************************)
HandlerResume(r, imageOk, written, stage) ==
  /\ serverUp
  /\ pc[r] = "loading"
  /\ LET names == ParticipantNames(r)
         generating == /\ imageOk
                       /\ ParticipantsFile(r) \in uploads
                       /\ Len(names) # 0
     IN
     /\ written \in 0..Len(names)
     /\ IF generating
        THEN /\ (stage \in {"none", "zip"} => written = Len(names))
             /\ (stage \in {"draw", "write"} => written < Len(names))
        ELSE written = 0 /\ stage = "none"
     /\ IF ~imageOk
        THEN \* loadImage rejects
             /\ CatchBlock(r, "loadImage", {})
             /\ UNCHANGED <<certDirExists, certFiles, zipExists, zipEntries>>
        ELSE IF ParticipantsFile(r) \notin uploads
        THEN \* readFileSync throws ENOENT
             /\ CatchBlock(r, "readParticipants", {"readParticipants"})
             /\ UNCHANGED <<certDirExists, certFiles, zipExists, zipEntries>>
        ELSE IF Len(names) = 0
        THEN /\ Respond(r, Json(400, MsgEmptyList),
                        [hist[r] EXCEPT !.did = @ \cup {"readParticipants"}])
             /\ UNCHANGED <<certDirExists, certFiles, zipExists, zipEntries>>
        ELSE /\ certDirExists' = TRUE
             /\ certFiles' = Generate(certFiles, names, written)
             /\ IF stage = "none"
                THEN /\ BuildArchive
                     /\ pc' = [pc EXCEPT ![r] = "sending"]
                     /\ UNCHANGED <<res, req, delivered>>
                     /\ hist' = [o \in Reqs |->
                          IF o = r
                          THEN [hist[o] EXCEPT !.did = @ \cup
                                  StepsDone(written, "zip") \cup {"download"}]
                          ELSE IF pc[o] = "streaming"
                          THEN \* the file being streamed is rewritten
                               [hist[o] EXCEPT !.torn = TRUE]
                          ELSE hist[o]]
                ELSE /\ CatchBlock(r, stage, StepsDone(written, stage))
                     /\ UNCHANGED <<zipExists, zipEntries>>
  /\ UNCHANGED <<variant, serverUp, uploads, normVars>>

(***************************************************************************)
(* The try block of the res.download callback.  The first copy of the      *)
(* handler empties uploads/ first, the second copy does not touch it.      *)
(* `k` calls complete before one throws; the throw is caught and logged.   *)
(***************************************************************************)
CleanupSteps ==
  IF variant = 1 THEN <<"uploads", "certs", "zip">> ELSE <<"certs", "zip">>

Cleanup(k) ==
  LET ran == {CleanupSteps[i] : i \in 1..k}
  IN  /\ uploads' = IF "uploads" \in ran THEN {} ELSE uploads
      /\ certDirExists' = IF "certs" \in ran THEN FALSE ELSE certDirExists
      /\ certFiles' = IF "certs" \in ran THEN {} ELSE certFiles
      /\ zipExists' = IF "zip" \in ran THEN FALSE ELSE zipExists
      /\ zipEntries' = IF "zip" \in ran THEN {} ELSE zipEntries

(***************************************************************************)
(* res.download opens certificates.zip.  If the file is gone the callback  *)
(* runs with an error before any header was sent; otherwise the headers    *)
(* go out and the file as it is now is streamed.                           *)
(***************************************************************************)
SendOpen(r, k) ==
  /\ serverUp
  /\ pc[r] = "sending"
  /\ k \in 0..Len(CleanupSteps)
  /\ IF zipExists
     THEN /\ k = 0
          /\ res' = [res EXCEPT ![r] = [status |-> 200, json |-> FALSE,
                                        msg |-> "certificates.zip",
                                        headersSent |-> TRUE]]
          /\ delivered' = [delivered EXCEPT ![r] = zipEntries]
          /\ pc' = [pc EXCEPT ![r] = "streaming"]
          /\ UNCHANGED <<req, hist, uploads, certDirExists, certFiles,
                         zipExists, zipEntries>>
     ELSE /\ Respond(r, Send(500, MsgDownload),
                     [hist[r] EXCEPT !.callbackRan = TRUE,
                                     !.failed = "download",
                                     !.cleanupThrew = (k < Len(CleanupSteps))])
          /\ Cleanup(k)
  /\ UNCHANGED <<variant, serverUp, normVars>>

(***************************************************************************)
(* The stream ends and the callback runs.  With an error after the headers *)
(* were sent, res.status(500).send(...) throws out of the callback before  *)
(* the cleanup; nothing catches it and the process ends, dropping every    *)
(* other request in flight.                                                *)
(***************************************************************************)
SendEnd(r, err, k) ==
  /\ serverUp
  /\ pc[r] = "streaming"
  /\ k \in 0..Len(CleanupSteps)
  /\ IF err
     THEN /\ k = 0
          /\ hist' = [o \in Reqs |->
                       IF o = r
                       THEN Ended([hist[r] EXCEPT !.callbackRan = TRUE,
                                                  !.failed = "download",
                                                  !.lateSend = TRUE,
                                                  !.escaped = TRUE])
                       ELSE IF InFlight(o) THEN NoHistory ELSE hist[o]]
          /\ pc' = [o \in Reqs |-> IF o = r THEN "done"
                                   ELSE IF InFlight(o) THEN "idle"
                                   ELSE pc[o]]
          /\ req' = [o \in Reqs |-> NoRequest]
          /\ delivered' = [o \in Reqs |-> {}]
          /\ serverUp' = FALSE
          /\ UNCHANGED <<uploads, certDirExists, certFiles, zipExists,
                         zipEntries>>
     ELSE /\ Cleanup(k)
          /\ EndRequest(r, [hist[r] EXCEPT
                              !.callbackRan = TRUE,
                              !.cleanupThrew = (k < Len(CleanupSteps))])
          /\ UNCHANGED serverUp
  /\ UNCHANGED <<variant, res, normVars>>

\* app.listen(PORT, ...): the server is started again over the same directory
Restart ==
  /\ ~serverUp
  /\ serverUp' = TRUE
  /\ UNCHANGED <<variant, pc, req, res, uploads, certDirExists, certFiles,
                 zipExists, zipEntries, delivered, hist, normVars>>

Next ==
  \/ \E r \in Reqs, up \in Uploads : BeginRequest(r, up)
  \/ \E r \in Reqs, fontsThrow \in BOOLEAN : HandlerStart(r, fontsThrow)
  \/ \E r \in Reqs, imageOk \in BOOLEAN, written \in 0..MaxLines,
        stage \in GenerationStages : HandlerResume(r, imageOk, written, stage)
  \/ \E r \in Reqs, k \in 0..3 : SendOpen(r, k)
  \/ \E r \in Reqs, err \in BOOLEAN, k \in 0..3 : SendEnd(r, err, k)
  \/ Restart

Spec == Init /\ [][Next]_vars

(***************************************************************************)
(* The normalization expression and the generation loop on their own:      *)
(* a line, its normalization, the normalization of that, and the files a   *)
(* two-line participants file produces.                                    *)
(***************************************************************************)
NormInit ==
  /\ variant = 1
  /\ ServerInit
  /\ nPc = "in"
  /\ nIn \in StringsUpTo(MaxLineLen)
  /\ nIn2 = <<>>
  /\ nOut = <<>>
  /\ nOut2 = <<>>
  /\ nFiles = {}

NormOnce ==
  /\ nPc = "in"
  /\ nOut' = Normalize(nIn)
  /\ nPc' = "once"
  /\ UNCHANGED <<nIn, nIn2, nOut2, nFiles, serverVars>>

NormTwice ==
  /\ nPc = "once"
  /\ nOut2' = Normalize(nOut)
  /\ nPc' = "twice"
  /\ UNCHANGED <<nIn, nIn2, nOut, nFiles, serverVars>>

NormPair(t) ==
  /\ nPc = "twice"
  /\ nIn2' = t
  /\ LET names == FilterBoolean(<<nIn, t>>)
     IN  nFiles' = Generate({}, names, Len(names))
  /\ nPc' = "pair"
  /\ UNCHANGED <<nIn, nOut, nOut2, serverVars>>

NormNext ==
  \/ NormOnce
  \/ NormTwice
  \/ \E t \in StringsUpTo(MaxLineLen - 1) : NormPair(t)

SpecNorm == NormInit /\ [][NormNext]_vars

(***************************************************************************)
(* Properties.                                                             *)
(***************************************************************************)
\* the participant list of request r, as a set
ListOf(r) == {req[r].lines[i] : i \in 1..Len(req[r].lines)} \ {<<>>}

\* {normalize(n) + '.png' : n in the participant list of r}
ExpectedEntries(r) == {CertName(Normalize(n)) : n \in ListOf(r)}

WorkingPathsAbsent == uploads = {} /\ ~certDirExists /\ ~zipExists

Quiescent == \A r \in Reqs : ~InFlight(r)

\* C1 (as stated): once every request received so far has been answered,
\* uploads/ holds no file and certificates/ and certificates.zip do not exist.
C1_AllAbsentAfterResponse ==
  (Quiescent /\ \E r \in Reqs : pc[r] = "done") => WorkingPathsAbsent

\* C2 (as stated): a request that did not overlap any other request, whatever
\* requests ran before it, streams an archive whose entries are exactly the
\* normalized names of its own participant list with ".png" appended.
C2_ArchiveIsExactlyOwnNames ==
  \A r \in Reqs :
    (pc[r] = "streaming" /\ ~hist[r].overlapped)
      => delivered[r] = ExpectedEntries(r)

\* C3 (as stated): the step in which the res.download callback runs leaves
\* uploads/ empty and certificates/ and certificates.zip removed (unless a
\* cleanup call itself threw), and no exception leaves the callback.
C3_CallbackCleansUp ==
  [][\A r \in Reqs :
       (~hist[r].callbackRan /\ hist'[r].callbackRan /\ ~hist'[r].cleanupThrew)
         => (WorkingPathsAbsent' /\ ~hist'[r].escaped)]_vars

\* C4: requests interfere only through overlap or left-over files: a request
\* that overlapped no other request and began with the working paths absent
\* keeps its uploads until it has read them, finds its archive when the
\* download opens it, and streams exactly its own certificates, untorn.
C4_AloneIsIsolated ==
  \A r \in Reqs :
    (~hist[r].overlapped /\ hist[r].cleanStart) =>
      /\ pc[r] \in {"uploaded", "loading"} =>
           {TemplateFile(r), ParticipantsFile(r)} \cap uploads
             = (IF req[r].hasTemplate THEN {TemplateFile(r)} ELSE {})
               \cup (IF req[r].hasParticipants THEN {ParticipantsFile(r)} ELSE {})
      /\ pc[r] = "sending" => (zipExists /\ zipEntries = ExpectedEntries(r))
      /\ pc[r] = "streaming" =>
           (delivered[r] = ExpectedEntries(r) /\ ~hist[r].torn)

\* C4 witness: two overlapping requests, one of them streaming an archive
\* that holds a certificate of the other and of nobody in its own list.
C4_ForeignCertificateDelivered ==
  \E r \in Reqs : \E o \in Reqs \ {r} :
    /\ pc[r] = "streaming"
    /\ pc[o] \in {"sending", "streaming"}
    /\ hist[r].overlapped
    /\ (delivered[r] \cap ExpectedEntries(o)) \ ExpectedEntries(r) # {}

\* a blank line: nothing on it but white space
OnlyBlankLines(lines) ==
  lines # <<>> /\ \A i \in 1..Len(lines) : Trim(lines[i]) = <<>>

\* an empty line: no character at all
OnlyEmptyLines(lines) ==
  lines # <<>> /\ \A i \in 1..Len(lines) : lines[i] = <<>>

NothingGenerated(r) ==
  /\ certDirExists' = certDirExists
  /\ certFiles' = certFiles
  /\ hist'[r].did \cap {"mkdir", "draw", "write", "zip", "download"} = {}

C6_GenerationFailureIs500 ==
  \A r \in Reqs :
    /\ hist[r].failed = "loadImage" =>
         /\ pc[r] = "done"
         /\ res[r] = Send(500, MsgGenerate)
         /\ hist[r].did \cap {"mkdir", "write", "zip", "download"} = {}
    /\ hist[r].failed \in {"draw", "write", "zip"} =>
         /\ pc[r] = "done"
         /\ res[r] = Send(500, MsgGenerate)
         /\ "download" \notin hist[r].did

\* C6 witness: a request that failed while writing a certificate, answered,
\* with the certificates directory it created still on disk.
C6_WriteFailed ==
  \E r \in Reqs :
    /\ pc[r] = "done"
    /\ hist[r].failed = "write"
    /\ res[r].status = 500
    /\ certDirExists

\* C7: the handler step of a request lacking the template or the participants
\* field answers 400 'Please upload both the template and participants
\* files.', performs none of the generation steps and touches no file.
C7_MissingFieldIs400 ==
  [][\A r \in Reqs :
       ( /\ pc[r] = "uploaded"
         /\ pc'[r] # "uploaded"
         /\ serverUp'
         /\ (~req[r].hasTemplate \/ ~req[r].hasParticipants) )
         => ( /\ pc'[r] = "done"
              /\ res'[r] = Json(400, MsgBothFiles)
              /\ hist'[r].did = {}
              /\ UNCHANGED <<uploads, certDirExists, certFiles, zipExists,
                             zipEntries>> )]_vars

\* C7 witness: a request answered with the both-files error while the one
\* file it did upload lies in uploads/.
C7_MissingFieldAnswered ==
  \E r \in Reqs :
    /\ pc[r] = "done"
    /\ res[r] = Json(400, MsgBothFiles)
    /\ hist[r].did = {}
    /\ \E f \in uploads : f.owner = r

\* C8: normalizing a normalized name changes nothing.
C8_NormalizeIdempotent ==
  nPc \in {"twice", "pair"} => nOut2 = nOut

\* C8 witness: a line that normalization changed (trimmed and capitalized),
\* normalized a second time.
C8_ChangedLineNormalizedTwice ==
  /\ nPc = "twice"
  /\ nIn = <<"\t", "a", " ", "a">>
  /\ nOut = <<"A", " ", "A">>

HasAdjacentSpaces(s) ==
  \E i \in 1..(Len(s) - 1) : s[i] = " " /\ s[i + 1] = " "

\* the words of a line: its maximal runs of characters other than ' '
RECURSIVE WordsOf(_)
WordsOf(s) ==
  IF s = <<>> THEN <<>>
  ELSE IF Head(s) = " " THEN WordsOf(Tail(s))
  ELSE LET n == CHOOSE k \in 1..Len(s) :
                  /\ \A j \in 1..k : s[j] # " "
                  /\ (k = Len(s) \/ s[k + 1] = " ")
       IN  <<SubSeq(s, 1, n)>> \o WordsOf(SubSeq(s, n + 1, Len(s)))

\* the same words, up to the case of each word's first character
SameWords(s, t) ==
  LET ws == WordsOf(Trim(s))
      wt == WordsOf(Trim(t))
  IN  /\ Len(ws) = Len(wt)
      /\ \A i \in 1..Len(ws) :
           /\ ToUpperCase(Head(ws[i])) = ToUpperCase(Head(wt[i]))
           /\ Tail(ws[i]) = Tail(wt[i])

\* C9 (as stated): the normalized name has its words joined by exactly one
\* space, so two lines with the same words, whatever the runs of spaces
\* between them, give one certificate file.
C9_SpacesCollapse ==
  /\ nPc # "in" => ~HasAdjacentSpaces(nOut)
  /\ (nPc = "pair" /\ nIn # <<>> /\ nIn2 # <<>>
        /\ SameWords(nIn, nIn2))
       => Cardinality(nFiles) = 1

\* C9 (amended): normalization keeps every space of the trimmed line where it
\* was and changes no character except to its upper case, and two lines give
\* one certificate file (the later write over the earlier) exactly when their
\* normalized names are equal.
C9_SpacesKept ==
  nPc = "pair" =>
    /\ Len(nOut) = Len(Trim(nIn))
    /\ \A i \in 1..Len(nOut) :
         /\ (nOut[i] = " ") <=> (Trim(nIn)[i] = " ")
         /\ nOut[i] \in {Trim(nIn)[i], ToUpperCase(Trim(nIn)[i])}
    /\ (nIn # <<>> /\ nIn2 # <<>>) =>
         /\ nFiles = {CertName(nOut), CertName(Normalize(nIn2))}
         /\ (Cardinality(nFiles) = 1 <=> nOut = Normalize(nIn2))

\* C9 witness: 'a  a' keeps its two spaces, so it and 'A a' give two files.
C9_TwoSpacesTwoFiles ==
  /\ nPc = "pair"
  /\ nIn = <<"a", " ", " ", "a">>
  /\ nIn2 = <<"A", " ", "a">>
  /\ nOut = <<"A", " ", " ", "A">>
  /\ Cardinality(nFiles) = 2

\* C10 (as stated): no request has a status set or a body sent after its
\* response headers were sent.
C10_NoSendAfterHeaders ==
  \A r \in Reqs : ~hist[r].lateSend

====
